---- MODULE Spec2Model ----
(***************************************************************************)
(* Model of the pandas check backend, pandera/backends/pandas/checks.py:   *)
(* PandasCheckBackend.preprocess / apply / postprocess / __call__.         *)
(*                                                                         *)
(* Containers are modelled positionally, with their row labels:            *)
(*   Series     [type, index, values, dtype]   (index: row labels)         *)
(*   DataFrame  [type, index, columns, data, dtype]   (data[j][i]: column  *)
(*                                              j, row i)                  *)
(* A long-form Series (the result of DataFrame.unstack()) is a Series      *)
(* whose labels are <<column, row label>> pairs.  A Series also carries    *)
(* its dtype ("object" for data, "bool" or "int64" for a check output).    *)
(* Scalars are [type, value].  A raised exception is                       *)
(* [type |-> "Error", error, arg].  Optional values: None is << >>, a      *)
(* present value x is <<x>>.  The check objects are pandas containers; the *)
(* branch of _get_series_failure_cases for pyspark.pandas and modin        *)
(* containers is not taken by them.                                        *)
(***************************************************************************)
EXTENDS Integers, Sequences, FiniteSets, TLC

VARIABLES check, call, result, earlier

vars == <<check, call, result, earlier>>

(***************************************************************************)
(* Bounds of the model.                                                    *)
(***************************************************************************)
MaxRows == 3
MaxTableRows == 2
MaxFailureCases == 2

None == << >>
Some(x) == <<x>>
NaN == "NaN"

Min(a, b) == IF a <= b THEN a ELSE b

Range(s) == {s[i] : i \in DOMAIN s}

IsUnique(s) == \A i, j \in DOMAIN s : s[i] = s[j] => i = j

\* Positions of mask, in increasing order, that hold the boolean b.
RECURSIVE PositionsOf(_, _, _)
PositionsOf(mask, b, i) ==
    IF i > Len(mask) THEN << >>
    ELSE IF mask[i] = b THEN <<i>> \o PositionsOf(mask, b, i + 1)
    ELSE PositionsOf(mask, b, i + 1)

Take(s, pos) == [p \in 1..Len(pos) |-> s[pos[p]]]

Error(kind, arg) == [type |-> "Error", error |-> kind, arg |-> arg]
IsError(x) == x.type = "Error"

Series(index, values, dtype) ==
    [type |-> "Series", index |-> index, values |-> values, dtype |-> dtype]
DataFrame(index, columns, data, dtype) ==
    [type |-> "DataFrame", index |-> index, columns |-> columns, data |-> data,
     dtype |-> dtype]

BoolScalar(b) == [type |-> "bool", value |-> b]
IntScalar(n) == [type |-> "int", value |-> n]

\* Mutant of shape: the row count alone, as len() gives it.
shape_rows_only(df) == <<Len(df.index)>>

shape(df) == <<Len(df.index), Len(df.columns)>>

(***************************************************************************)
(* pandas operations used by the backend.                                  *)
(***************************************************************************)
\* Mutant of isna: a row of a table counts as missing only when every
\* column is missing in it (all in place of any).
isna_all_columns(obj) ==
    IF obj.type = "Series"
    THEN [i \in 1..Len(obj.index) |-> obj.values[i] = NaN]
    ELSE [i \in 1..Len(obj.index) |->
            \A j \in 1..Len(obj.columns) : obj.data[j][i] = NaN]

\* Series.isna() / DataFrame.isna().any(axis="columns"): per-row missing mask.
isna(obj) ==
    IF obj.type = "Series"
    THEN [i \in 1..Len(obj.index) |-> obj.values[i] = NaN]
    ELSE [i \in 1..Len(obj.index) |->
            \E j \in 1..Len(obj.columns) : obj.data[j][i] = NaN]

\* check_output | mask, element by element.  An integer output or-ed with a
\* boolean mask is coerced to bool by pandas (non-zero is true).
Truth(v, dtype) == IF dtype = "bool" THEN v ELSE v # 0
or_mask(check_output, mask) ==
    Series(check_output.index,
           [i \in 1..Len(check_output.values) |->
               Truth(check_output.values[i], check_output.dtype) \/ mask[i]],
           "bool")

\* Series.all() / Series.all(axis=None): AND-reduction, true when empty.
all(check_output) ==
    \A i \in 1..Len(check_output.values) :
        Truth(check_output.values[i], check_output.dtype)

\* Rows of a container at the given positions.
rows_at(obj, pos) ==
    IF obj.type = "Series"
    THEN Series(Take(obj.index, pos), Take(obj.values, pos), obj.dtype)
    ELSE DataFrame(Take(obj.index, pos), obj.columns,
                   [j \in 1..Len(obj.columns) |-> Take(obj.data[j], pos)],
                   obj.dtype)

\* Mutant of getitem_not: the mask is not inverted.
getitem_mask(obj, check_output) ==
    rows_at(obj, PositionsOf(check_output.values, TRUE, 1))

\* check_obj[~check_output] with a boolean mask: the rows at the false
\* positions, in their original order.
getitem_not(obj, check_output) ==
    rows_at(obj, PositionsOf(check_output.values, FALSE, 1))

\* .empty: some axis has length zero.
empty(obj) ==
    IF obj.type = "Series" THEN Len(obj.index) = 0
    ELSE Len(obj.index) = 0 \/ Len(obj.columns) = 0

\* DataFrame.unstack() on a flat row index: a long-form Series, column-major,
\* rows in their original order within each column.
unstack(df) ==
    LET R == Len(df.index)
        C == Len(df.columns)
        col(p) == ((p - 1) \div R) + 1
        row(p) == ((p - 1) % R) + 1
    IN  IF R = 0 THEN Series(<< >>, << >>, df.dtype)
        ELSE Series([p \in 1..(R * C) |-> <<df.columns[col(p)], df.index[row(p)]>>],
                    [p \in 1..(R * C) |-> df.data[col(p)][row(p)]],
                    df.dtype)

\* head(n) of each group: a row is kept when fewer than n earlier rows carry
\* the same group key.
head_per_group(obj, keys, n) ==
    LET keep == [i \in 1..Len(keys) |->
                    Cardinality({h \in 1..(i - 1) : keys[h] = keys[i]}) < n]
    IN  rows_at(obj, PositionsOf(keep, TRUE, 1))

\* failure_cases.groupby(check_output).head(n): the grouping Series is aligned
\* to failure_cases by row label.  When the two indexes are equal its values
\* are used as they are; otherwise it is reindexed, which pandas refuses
\* (ValueError) when the grouping Series has duplicate row labels.
groupby_head(failure_cases, check_output, n) ==
    IF failure_cases.index = check_output.index
    THEN head_per_group(failure_cases, check_output.values, n)
    ELSE IF ~IsUnique(check_output.index)
    THEN Error("ValueError",
               [message |-> "cannot reindex on an axis with duplicate labels"])
    ELSE LET at(l) == CHOOSE i \in 1..Len(check_output.index) :
                          check_output.index[i] = l
             keys == [i \in 1..Len(failure_cases.index) |->
                         check_output.values[at(failure_cases.index[i])]]
         IN  head_per_group(failure_cases, keys, n)

(***************************************************************************)
(* PandasCheckBackend.                                                     *)
(***************************************************************************)
\* __init__: the backend keeps a reference to its check definition.
init(c) == [check |-> c, check_fn |-> c.check_fn]

CheckResult(check_output, check_passed, checked_object, failure_cases) ==
    [type |-> "CheckResult",
     check_output |-> check_output,
     check_passed |-> check_passed,
     checked_object |-> checked_object,
     failure_cases |-> failure_cases]

NoFailureCases == [type |-> "NoneType"]

\* Which postprocess overload the dispatch on (type(check_obj),
\* type(check_output)) selects: the most specific signature that matches.
Overload(check_obj, check_output) ==
    IF check_output.type = "bool" THEN "any_bool"
    ELSE IF check_obj.type = "Series" /\ check_output.type = "Series"
    THEN "series_series"
    ELSE IF check_obj.type = "DataFrame" /\ check_output.type = "Series"
    THEN "frame_series"
    ELSE IF check_obj.type = "DataFrame" /\ check_output.type = "DataFrame"
    THEN "frame_frame"
    ELSE "any_any"

\* postprocess(check_obj: Any, check_output: bool)
postprocess_bool(self, check_obj, check_output) ==
    CheckResult(check_output, check_output.value, check_obj, NoFailureCases)

\* _get_series_failure_cases.  A boolean output selects rows by mask; the
\* inverse of an integer output is a list of negative integers, which
\* selects by label and finds none of them (KeyError).
get_series_failure_cases(self, check_obj, check_output) ==
    IF check_output.dtype # "bool"
    THEN Error("KeyError", [message |-> "not in index"])
    ELSE LET failure_cases == getitem_not(check_obj, check_output) IN
         IF ~empty(failure_cases) /\ self.check.n_failure_cases # None
         THEN groupby_head(failure_cases, check_output,
                           self.check.n_failure_cases[1])
         ELSE failure_cases

\* Mutant of postprocess_rows: check_passed is reduced from the output as the
\* predicate returned it, before the ignore_na adjustment.
postprocess_rows_raw_passed(self, check_obj, check_output) ==
    LET out == IF self.check.ignore_na
               THEN or_mask(check_output, isna(check_obj))
               ELSE check_output
        failure_cases == get_series_failure_cases(self, check_obj, out)
    IN  IF IsError(failure_cases) THEN failure_cases
        ELSE CheckResult(out, all(check_output), check_obj, failure_cases)

\* postprocess(check_obj: pd.Series, check_output: pd.Series) and
\* postprocess(check_obj: pd.DataFrame, check_output: pd.Series): isna(obj)
\* is the row mask of either container.
postprocess_rows(self, check_obj, check_output) ==
    LET out == IF self.check.ignore_na
               THEN or_mask(check_output, isna(check_obj))
               ELSE check_output
        failure_cases == get_series_failure_cases(self, check_obj, out)
    IN  IF IsError(failure_cases) THEN failure_cases
        ELSE CheckResult(out, all(out), check_obj, failure_cases)

\* .rename("failure_case").rename_axis(["column", "index"]).reset_index():
\* one record per long-form entry.
reset_index(long) ==
    [type |-> "DataFrame",
     columns |-> <<"column", "index", "failure_case">>,
     rows |-> [p \in 1..Len(long.index) |->
                 [column |-> long.index[p][1],
                  index |-> long.index[p][2],
                  failure_case |-> long.values[p]]]]

\* Mutant of drop_duplicates: nothing is dropped.
keep_duplicates(frame) == frame

\* drop_duplicates(): the first occurrence of every row is kept.
drop_duplicates(frame) ==
    LET keep == [p \in 1..Len(frame.rows) |->
                    \A q \in 1..(p - 1) : frame.rows[q] # frame.rows[p]]
    IN  [frame EXCEPT !.rows = Take(frame.rows, PositionsOf(keep, TRUE, 1))]

head(frame, n) ==
    [frame EXCEPT !.rows = SubSeq(frame.rows, 1, Min(n, Len(frame.rows)))]

\* postprocess(check_obj: pd.DataFrame, check_output: pd.DataFrame)
postprocess_cells(self, check_obj, check_output) ==
    IF shape(check_obj) # shape(check_output)
    THEN Error("AssertionError", [message |-> ""])
    ELSE LET obj == unstack(check_obj)
             raw == unstack(check_output)
             out == IF self.check.ignore_na THEN or_mask(raw, isna(obj)) ELSE raw
             failure_cases == reset_index(getitem_not(obj, out))
             bounded ==
                 IF Len(failure_cases.rows) # 0 /\ self.check.n_failure_cases # None
                 THEN head(drop_duplicates(failure_cases),
                           self.check.n_failure_cases[1])
                 ELSE failure_cases
         IN  CheckResult(out, all(out), obj, bounded)

\* Mutant of postprocess_any: the message names the type of the check
\* object.
postprocess_any_names_object(self, check_obj, check_output) ==
    Error("TypeError",
          [message |-> "output type of check_fn not recognized",
           output_type |-> check_obj.type])

\* postprocess(check_obj: Any, check_output: Any)
postprocess_any(self, check_obj, check_output) ==
    Error("TypeError",
          [message |-> "output type of check_fn not recognized",
           output_type |-> check_output.type])

postprocess(self, check_obj, check_output) ==
    LET which == Overload(check_obj, check_output) IN
    IF which = "any_bool" THEN postprocess_bool(self, check_obj, check_output)
    ELSE IF which \in {"series_series", "frame_series"}
    THEN postprocess_rows(self, check_obj, check_output)
    ELSE IF which = "frame_frame"
    THEN postprocess_cells(self, check_obj, check_output)
    ELSE postprocess_any(self, check_obj, check_output)

\* hasattr(self, name): the instance attributes are those __init__ sets; the
\* class and its base define methods only.
hasattr(self, name) == name \in DOMAIN self

\* A pandas groupby object: the group of every key, made of the rows that
\* carry the key, in row order.  Rows whose key is missing are in no group.
GroupBy(obj, keys) ==
    [type |-> "GroupBy",
     groups |-> [k \in Range(keys) \ {NaN} |->
                    rows_at(obj, PositionsOf([i \in 1..Len(keys) |-> keys[i] = k],
                                             TRUE, 1))]]

\* The grouping function of the model, lambda obj: obj.groupby(parity), where
\* parity maps a row label to "even" or "odd".
parity(label) == IF label % 2 = 0 THEN "even" ELSE "odd"
by_parity(obj) == GroupBy(obj, [i \in 1..Len(obj.index) |-> parity(obj.index[i])])

\* obj.groupby(name): a DataFrame groups by its column of that name; a
\* Series, or a DataFrame without the column, has no such key (KeyError).
groupby_name(obj, name) ==
    IF obj.type = "DataFrame" /\ name \in Range(obj.columns)
    THEN LET j == CHOOSE j \in 1..Len(obj.columns) : obj.columns[j] = name
         IN  GroupBy(obj, obj.data[j])
    ELSE Error("KeyError", [message |-> name])

\* PandasCheckBackend.groupby: a column name or a grouping function.
groupby(self, check_obj) ==
    IF self.check.groupby[1] = "by_parity"
    THEN by_parity(check_obj)
    ELSE groupby_name(check_obj, self.check.groupby[1])

\* _format_groupby_input
format_groupby_input(groupby_obj, groups) ==
    IF groups = None
    THEN [type |-> "dict", items |-> groupby_obj.groups]
    ELSE LET group_keys == DOMAIN groupby_obj.groups
             requested == groups[1]
             invalid_groups ==
                 Take(requested,
                      PositionsOf([i \in 1..Len(requested) |->
                                      requested[i] \notin group_keys], TRUE, 1))
         IN  IF Len(invalid_groups) # 0
             THEN Error("KeyError",
                        [invalid |-> invalid_groups, valid |-> group_keys])
             ELSE [type |-> "dict",
                   items |-> [k \in group_keys \cap Range(requested) |->
                                 groupby_obj.groups[k]]]

\* check_obj[key]: the column of that name.
getitem_column(check_obj, key) ==
    LET j == CHOOSE j \in 1..Len(check_obj.columns) : check_obj.columns[j] = key
    IN  Series(check_obj.index, check_obj.data[j], check_obj.dtype)

\* self._format_groupby_input(self.groupby(check_obj), self.groups): the
\* arguments are evaluated left to right, then the call is made.  Reading
\* an attribute the instance does not have raises AttributeError.
grouped(self, check_obj) ==
    LET groupby_obj == groupby(self, check_obj) IN
    IF IsError(groupby_obj) THEN groupby_obj
    ELSE IF ~hasattr(self, "groups") THEN Error("AttributeError", [message |-> "groups"])
    ELSE format_groupby_input(groupby_obj, self.groups)

\* preprocess(check_obj: pd.Series, key: None),
\* preprocess(check_obj: pd.DataFrame, key: str) and
\* preprocess(check_obj: pd.DataFrame, key: None).
preprocess(self, check_obj, key) ==
    IF check_obj.type = "Series" THEN check_obj
    ELSE LET obj == IF key # None THEN getitem_column(check_obj, key[1])
                    ELSE check_obj
         IN  IF self.check.groupby = None THEN obj
             ELSE grouped(self, obj)

\* The predicates of the model.  Values are numerals; a missing value
\* compares false with everything.
\*   "gt0"     lambda x: x > 0   (a value, a column or a table)
\*   "always"  lambda x: True    (a Python bool)
\*   "one"     lambda x: 1       (an int)
gt0(v) == v # NaN /\ v = "1"

\* check_fn on one value.
check_fn_scalar(self, v) ==
    IF self.check_fn = "gt0" THEN gt0(v)
    ELSE IF self.check_fn = "always" THEN TRUE
    ELSE 1

\* check_fn on one row of a table, a Series over the column names.
check_fn_row(self, row) ==
    IF self.check_fn = "gt0" THEN [j \in 1..Len(row) |-> gt0(row[j])]
    ELSE IF self.check_fn = "always" THEN TRUE
    ELSE 1

\* check_fn on a whole column or table.
check_fn_whole(self, obj) ==
    IF self.check_fn = "always" THEN BoolScalar(TRUE)
    ELSE IF self.check_fn = "one" THEN IntScalar(1)
    ELSE IF obj.type = "Series"
    THEN Series(obj.index, [i \in 1..Len(obj.index) |-> gt0(obj.values[i])],
                "bool")
    ELSE DataFrame(obj.index, obj.columns,
                   [j \in 1..Len(obj.columns) |->
                       [i \in 1..Len(obj.index) |-> gt0(obj.data[j][i])]],
                   "bool")

output_dtype(self) == IF self.check_fn = "one" THEN "int64" ELSE "bool"

\* apply(check_obj: pd.Series): check_obj.map(check_fn) when element_wise.
apply_series(self, check_obj) ==
    IF self.check.element_wise
    THEN Series(check_obj.index,
                [i \in 1..Len(check_obj.index) |->
                    check_fn_scalar(self, check_obj.values[i])],
                output_dtype(self))
    ELSE check_fn_whole(self, check_obj)

\* apply(check_obj: pd.DataFrame): check_obj.apply(check_fn, axis=1) when
\* element_wise.  The predicate gets each row as a Series over the column
\* names: scalar returns are collected into a column, Series returns (of
\* "gt0") into a table of the shape of check_obj.
apply_frame(self, check_obj) ==
    LET row(i) == [j \in 1..Len(check_obj.columns) |-> check_obj.data[j][i]] IN
    IF self.check.element_wise
    THEN IF self.check_fn = "gt0"
         THEN DataFrame(check_obj.index, check_obj.columns,
                        [j \in 1..Len(check_obj.columns) |->
                            [i \in 1..Len(check_obj.index) |->
                                check_fn_row(self, row(i))[j]]],
                        "bool")
         ELSE Series(check_obj.index,
                     [i \in 1..Len(check_obj.index) |->
                         check_fn_row(self, row(i))],
                     output_dtype(self))
    ELSE check_fn_whole(self, check_obj)

\* apply is defined for a Series and for a DataFrame only.
apply(self, check_obj) ==
    IF check_obj.type = "Series" THEN apply_series(self, check_obj)
    ELSE IF check_obj.type = "DataFrame" THEN apply_frame(self, check_obj)
    ELSE Error("DispatchError", [message |-> check_obj.type])

\* How often apply invokes the predicate.
invocations(self, check_obj) ==
    IF check_obj.type \notin {"Series", "DataFrame"} THEN 0
    ELSE IF self.check.element_wise THEN Len(check_obj.index)
    ELSE 1

\* Mutant of backend_call: a call without a bound on the failure cases
\* leaves a default bound on the check of the backend.
backend_call_sets_bound(self, check_obj, key) ==
    LET pre == preprocess(self, check_obj, key)
        out == apply(self, pre)
    IN  [self |-> IF self.check.n_failure_cases = None
                  THEN [self EXCEPT !.check.n_failure_cases = Some(1)]
                  ELSE self,
         check_obj |-> check_obj,
         fn_calls |-> IF IsError(pre) THEN 0 ELSE invocations(self, pre),
         result |-> IF IsError(pre) THEN pre
                    ELSE IF IsError(out) THEN out
                    ELSE postprocess(self, pre, out)]

\* __call__: preprocess, apply, postprocess; an exception of a stage ends
\* the call.  The outcome holds the result (or the exception), the backend
\* and the caller's check object as the call leaves them (no stage assigns to
\* an attribute of self or changes a container in place), and the number of
\* predicate invocations.
backend_call(self, check_obj, key) ==
    LET pre == preprocess(self, check_obj, key)
        out == apply(self, pre)
    IN  [self |-> self,
         check_obj |-> check_obj,
         fn_calls |-> IF IsError(pre) THEN 0 ELSE invocations(self, pre),
         result |-> IF IsError(pre) THEN pre
                    ELSE IF IsError(out) THEN out
                    ELSE postprocess(self, pre, out)]

(***************************************************************************)
(* Inputs: check definitions, check objects and predicate outputs.         *)
(***************************************************************************)
Values == {"-1", "1", NaN}
TableValues == {"-1", NaN}
Columns == <<"a", "b">>

\* Row labels of n rows: 0, 1, 2, ... where a label may repeat the one
\* before it, so both unique and duplicated row indexes occur.
IndexChoices(n) ==
    {s \in [1..n -> 0..n] :
        \A i \in 1..n : IF i = 1 THEN s[i] = 0
                        ELSE s[i] \in {s[i - 1], s[i - 1] + 1}}

SeriesObjects ==
    UNION {{Series(idx, vals, "object") :
               idx \in IndexChoices(n), vals \in [1..n -> Values]} :
           n \in 0..MaxRows}

DataFrameObjects ==
    UNION {{DataFrame(idx, Columns, data, "object") :
               idx \in IndexChoices(n),
               data \in [1..Len(Columns) -> [1..n -> TableValues]]} :
           n \in 0..MaxTableRows}

\* What a predicate can return for check_obj: a Python bool, another scalar,
\* a per-row Series on the rows of check_obj (boolean, or integer 0/1 on at
\* least one row), and a boolean DataFrame, of the shape of check_obj or of
\* another shape.
BoolOutputs == {BoolScalar(TRUE), BoolScalar(FALSE)}

OtherScalarOutputs == {IntScalar(1)}

RowOutputs(check_obj) ==
    {Series(check_obj.index, v, "bool") :
        v \in [1..Len(check_obj.index) -> BOOLEAN]}

IntRowOutputs(check_obj) ==
    IF Len(check_obj.index) = 0 THEN {}
    ELSE {Series(check_obj.index, v, "int64") :
             v \in [1..Len(check_obj.index) -> {0, 1}]}

CellOutputs(check_obj) ==
    UNION {{DataFrame(IF r = Len(check_obj.index) THEN check_obj.index
                      ELSE [i \in 1..r |-> i - 1],
                      SubSeq(Columns, 1, c), data, "bool") :
               data \in [1..c -> [1..r -> BOOLEAN]]} :
           r \in 0..MaxTableRows, c \in 1..Len(Columns)}

Limits == {None} \cup {Some(k) : k \in 0..MaxFailureCases}

Check(fn, element_wise, by, groups, ignore_na, n_failure_cases) ==
    [check_fn |-> fn, element_wise |-> element_wise, groupby |-> by,
     groups |-> groups, ignore_na |-> ignore_na,
     n_failure_cases |-> n_failure_cases]

NoCall == [op |-> "none"]
NoResult == [type |-> "NoneType"]

(***************************************************************************)
(* Postprocessing of a predicate output, for every check object and every  *)
(* output a predicate can return for it.                                   *)
(***************************************************************************)
PostInit ==
    /\ check \in {Check("gt0", FALSE, None, None, na, n) :
                     na \in BOOLEAN, n \in Limits}
    /\ call = NoCall
    /\ result = NoResult
    /\ earlier = NoCall

\* The caller takes the result (or catches the exception) of the last call;
\* the backend is then ready for the next one.
Return ==
    /\ call # NoCall
    /\ call' = NoCall
    /\ result' = NoResult
    /\ UNCHANGED <<check, earlier>>

Postprocess(check_obj, check_output) ==
    /\ call' = [op |-> "postprocess", check_obj |-> check_obj,
                check_output |-> check_output]
    /\ result' = postprocess(init(check), check_obj, check_output)
    /\ UNCHANGED <<check, earlier>>

PostprocessAny(check_obj) ==
    \/ \E check_output \in BoolOutputs : Postprocess(check_obj, check_output)
    \/ \E check_output \in OtherScalarOutputs :
           Postprocess(check_obj, check_output)
    \/ \E check_output \in RowOutputs(check_obj) :
           Postprocess(check_obj, check_output)
    \/ \E check_output \in IntRowOutputs(check_obj) :
           Postprocess(check_obj, check_output)
    \/ \E check_output \in CellOutputs(check_obj) :
           Postprocess(check_obj, check_output)

PostprocessSeries ==
    /\ call = NoCall
    /\ \E check_obj \in SeriesObjects : PostprocessAny(check_obj)

PostprocessDataFrame ==
    /\ call = NoCall
    /\ \E check_obj \in DataFrameObjects : PostprocessAny(check_obj)

PostNext == PostprocessSeries \/ PostprocessDataFrame \/ Return

PostSpec == PostInit /\ [][PostNext]_vars

(***************************************************************************)
(* Preprocessing of a check object, for every grouping configuration.      *)
(***************************************************************************)
Groupings == {None, Some("a"), Some("by_parity")}

AllowLists ==
    {None, Some(<<"-1">>), Some(<<"even">>), Some(<<"z">>),
     Some(<<"z", "odd">>), Some(<<"y", "-1", "z">>)}

Keys == {None, Some("a"), Some("b")}

PreInit ==
    /\ check \in {Check("gt0", FALSE, by, groups, FALSE, None) :
                     by \in Groupings, groups \in AllowLists}
    /\ call = NoCall
    /\ result = NoResult
    /\ earlier = NoCall

Preprocess(check_obj, key) ==
    /\ call' = [op |-> "preprocess", check_obj |-> check_obj, key |-> key]
    /\ result' = preprocess(init(check), check_obj, key)
    /\ UNCHANGED <<check, earlier>>

PreprocessSeries ==
    /\ call = NoCall
    /\ \E check_obj \in SeriesObjects : Preprocess(check_obj, None)

PreprocessDataFrame ==
    /\ call = NoCall
    /\ \E check_obj \in DataFrameObjects : \E key \in Keys :
           Preprocess(check_obj, key)

PreNext == PreprocessSeries \/ PreprocessDataFrame \/ Return

PreSpec == PreInit /\ [][PreNext]_vars

(***************************************************************************)
(* The backend: one instance, bound to one check, called again and again.  *)
(* earlier remembers the first call made: the check the backend was bound  *)
(* to, the inputs and what the call returned.                              *)
(***************************************************************************)
MaxCallRows == 1

\* Calls are made on objects with at least one row: what Series.map and
\* DataFrame.apply collect from no rows at all has no element type of the
\* predicate.
CallSeriesObjects == {o \in SeriesObjects : Len(o.index) \in 1..MaxCallRows}

CallDataFrameObjects ==
    {o \in DataFrameObjects : Len(o.index) \in 1..MaxCallRows}

Init ==
    /\ check \in {Check(fn, element_wise, by, None, ignore_na, n) :
                     fn \in {"gt0", "always", "one"},
                     element_wise \in BOOLEAN,
                     by \in {None, Some("a")},
                     ignore_na \in BOOLEAN,
                     n \in {None, Some(1)}}
    /\ call = NoCall
    /\ result = NoResult
    /\ earlier = NoCall

Call(check_obj, key) ==
    LET done == backend_call(init(check), check_obj, key) IN
    /\ call' = [op |-> "call", check_obj |-> check_obj, key |-> key,
                check_obj_after |-> done.check_obj,
                fn_calls |-> done.fn_calls]
    /\ result' = done.result
    /\ check' = done.self.check
    /\ earlier' = IF earlier = NoCall
                  THEN [op |-> "call", check |-> check,
                        check_obj |-> check_obj, key |-> key,
                        result |-> done.result]
                  ELSE earlier

CallSeries ==
    /\ call = NoCall
    /\ \E check_obj \in CallSeriesObjects : Call(check_obj, None)

CallDataFrame ==
    /\ call = NoCall
    /\ \E check_obj \in CallDataFrameObjects : \E key \in Keys :
           Call(check_obj, key)

Next == CallSeries \/ CallDataFrame \/ Return

Spec == Init /\ [][Next]_vars

(***************************************************************************)
(* Vocabulary of the properties, stated on the inputs of the last call     *)
(* and on its result, independently of the operators above.                *)
(***************************************************************************)
Posted == call.op = "postprocess"
Returned == result.type = "CheckResult"
Raised(kind) == result.type = "Error" /\ result.error = kind

ColumnObject == call.check_obj.type = "Series"
TableObject == call.check_obj.type = "DataFrame"
ScalarOutput == call.check_output.type = "bool"
PerRowOutput ==
    call.check_output.type = "Series" /\ call.check_output.dtype = "bool"
PerCellOutput == TableObject /\ call.check_output.type = "DataFrame"
SameShape ==
    /\ Len(call.check_output.index) = Len(call.check_obj.index)
    /\ Len(call.check_output.columns) = Len(call.check_obj.columns)

Bounded == check.n_failure_cases # None
Limit == check.n_failure_cases[1]

NumRows == Len(call.check_obj.index)
NumCols == Len(call.check_obj.columns)

\* Row i of the check object has a missing value.
MissingRow(i) ==
    IF ColumnObject THEN call.check_obj.values[i] = NaN
    ELSE \E j \in 1..NumCols : call.check_obj.data[j][i] = NaN

\* The rows that fail: the predicate said false and, with ignore_na, no
\* value of the row is missing.
FailingRows ==
    {i \in 1..NumRows :
        /\ ~call.check_output.values[i]
        /\ ~(check.ignore_na /\ MissingRow(i))}

\* The k-th smallest element of a set of naturals.
Nth(S, k) == CHOOSE i \in S : Cardinality({h \in S : h < i}) = k - 1

\* Row i of the check object, as it would appear in failure_cases.
RowLabel(i) == call.check_obj.index[i]
RowValue(i) ==
    IF ColumnObject THEN call.check_obj.values[i]
    ELSE [j \in 1..NumCols |-> call.check_obj.data[j][i]]

\* Row p of failure_cases, for either container.
CaseLabel(p) == result.failure_cases.index[p]
CaseValue(p) ==
    IF ColumnObject THEN result.failure_cases.values[p]
    ELSE [j \in 1..NumCols |-> result.failure_cases.data[j][p]]
NumCases == Len(result.failure_cases.index)

\* failure_cases is exactly the first n failing rows, in row order.
FirstFailingRows(n) ==
    /\ NumCases = n
    /\ \A p \in 1..n :
           /\ CaseLabel(p) = RowLabel(Nth(FailingRows, p))
           /\ CaseValue(p) = RowValue(Nth(FailingRows, p))

\* Every element of a check_output is true.
EveryElementTrue(out) ==
    IF out.type = "bool" THEN out.value
    ELSE \A i \in 1..Len(out.values) : out.values[i]

\* C1: the check_passed of every Check Result postprocess returns is true
\* exactly when every element of the check_output of that result is true,
\* for scalar, per-row and per-cell outputs, empty containers included.
C1_PassedIsAllOfOutput ==
    (Posted /\ Returned) =>
        (result.check_passed <=> EveryElementTrue(result.check_output))

C1_Witness ==
    /\ Posted /\ Returned /\ PerCellOutput
    /\ check.ignore_na
    /\ result.check_passed
    /\ \E p \in 1..Len(call.check_output.index) :
           ~call.check_output.data[1][p]

\* C2: for a column and a per-row boolean output, without ignore_na and
\* without a bound, failure_cases are exactly the values of the column at
\* the false positions of the output, in row order.
C2_UnboundedFailureCases ==
    (Posted /\ ColumnObject /\ PerRowOutput /\ ~check.ignore_na /\ ~Bounded) =>
        /\ Returned
        /\ result.failure_cases.type = "Series"
        /\ FirstFailingRows(Cardinality(FailingRows))

C2_Witness ==
    /\ Posted /\ ColumnObject /\ PerRowOutput /\ ~check.ignore_na /\ ~Bounded
    /\ Returned
    /\ call.check_output.values = <<TRUE, FALSE, FALSE>>
    /\ result.failure_cases.values = <<"1", "-1">>

\* C3: truncation law.  For a column or table object with a per-row boolean
\* output and n_failure_cases = k, failure_cases are the first min(k, m) of
\* the m failing rows, in row order.
C3_TruncationLaw ==
    (Posted /\ PerRowOutput /\ Bounded) =>
        /\ Returned
        /\ FirstFailingRows(Min(Limit, Cardinality(FailingRows)))

\* The law on the calls that return, and on row indexes without duplicates.
C3_LawWhenReturned ==
    (Posted /\ PerRowOutput /\ Bounded /\ Returned) =>
        FirstFailingRows(Min(Limit, Cardinality(FailingRows)))

C3_LawOnUniqueIndex ==
    (Posted /\ PerRowOutput /\ Bounded /\ IsUnique(call.check_obj.index)) =>
        /\ Returned
        /\ FirstFailingRows(Min(Limit, Cardinality(FailingRows)))

\* Cell (column j, row i) of a table, and its place in column-major order.
CellKey(j, i) == (j - 1) * NumRows + i
Cells == (1..NumCols) \X (1..NumRows)
MissingCell(c) == call.check_obj.data[c[1]][c[2]] = NaN
CellTriple(c) ==
    [column |-> call.check_obj.columns[c[1]],
     index |-> call.check_obj.index[c[2]],
     failure_case |-> call.check_obj.data[c[1]][c[2]]]
FailingCells ==
    {c \in Cells :
        /\ ~call.check_output.data[c[1]][c[2]]
        /\ ~(check.ignore_na /\ MissingCell(c))}
\* The failing cells that repeat no triple of a failing cell before them.
FirstOfTriple ==
    {c \in FailingCells :
        \A d \in FailingCells :
            CellKey(d[1], d[2]) < CellKey(c[1], c[2]) =>
                CellTriple(d) # CellTriple(c)}
\* The k-th cell of a set of cells, in column-major order.
NthCell(S, k) ==
    CHOOSE c \in S :
        Cardinality({d \in S : CellKey(d[1], d[2]) < CellKey(c[1], c[2])}) = k - 1
\* failure_cases lists exactly the first n cells of S, in column-major order.
ListsCells(S, n) ==
    /\ Len(result.failure_cases.rows) = n
    /\ \A p \in 1..n : result.failure_cases.rows[p] = CellTriple(NthCell(S, p))

\* C6: with ignore_na a missing position passes, whatever the predicate
\* returned for it: its check_output is true, it is in no failure case and
\* check_passed is decided by the other positions alone.  Without ignore_na
\* the output of the predicate is used as it is.
C6_MissingValuesPass ==
    /\ (Posted /\ Returned /\ PerRowOutput) =>
          IF check.ignore_na
          THEN /\ \A i \in 1..NumRows :
                      MissingRow(i) => result.check_output.values[i]
               /\ \A p \in 1..NumCases :
                      IF ColumnObject THEN CaseValue(p) # NaN
                      ELSE \A j \in 1..NumCols : CaseValue(p)[j] # NaN
               /\ result.check_passed <=>
                      \A i \in 1..NumRows :
                          MissingRow(i) \/ call.check_output.values[i]
          ELSE result.check_output = call.check_output
    /\ (Posted /\ Returned /\ PerCellOutput) =>
          IF check.ignore_na
          THEN /\ \A c \in Cells :
                      MissingCell(c) =>
                          result.check_output.values[CellKey(c[1], c[2])]
               /\ \A p \in 1..Len(result.failure_cases.rows) :
                      result.failure_cases.rows[p].failure_case # NaN
               /\ result.check_passed <=>
                      \A c \in Cells :
                          MissingCell(c) \/ call.check_output.data[c[1]][c[2]]
          ELSE \A c \in Cells :
                   result.check_output.values[CellKey(c[1], c[2])]
                       = call.check_output.data[c[1]][c[2]]

C6_Witness ==
    /\ Posted /\ Returned /\ TableObject /\ PerRowOutput
    /\ check.ignore_na
    /\ Bounded
    /\ NumRows = 2
    /\ MissingRow(1) /\ ~MissingRow(2)
    /\ call.check_output.values = <<FALSE, FALSE>>
    /\ NumCases = 1

\* C7 as stated: for a table and a per-cell output of its shape, whatever
\* n_failure_cases is, failure_cases lists the failing cells in column-major
\* order without ever repeating a (column, row, value) triple, and at most
\* the first n_failure_cases of them.
C7_NeverRepeatsTriple ==
    (Posted /\ PerCellOutput /\ SameShape) =>
        /\ Returned
        /\ ListsCells(FirstOfTriple,
                      IF Bounded THEN Min(Limit, Cardinality(FirstOfTriple))
                      ELSE Cardinality(FirstOfTriple))

\* C7 amended: with n_failure_cases = k, failure_cases are the first k
\* distinct triples of the failing cells in column-major order; with
\* n_failure_cases = None they are all failing cells in that order, one entry
\* per cell, so a triple repeats when a row label does.
C7_LongFormFailureCases ==
    (Posted /\ PerCellOutput /\ SameShape) =>
        /\ Returned
        /\ IF Bounded
           THEN ListsCells(FirstOfTriple, Min(Limit, Cardinality(FirstOfTriple)))
           ELSE ListsCells(FailingCells, Cardinality(FailingCells))

C7_Witness ==
    /\ Posted /\ PerCellOutput /\ SameShape /\ Returned
    /\ Bounded /\ Limit = 2
    /\ Cardinality(FailingCells) = 4
    /\ Cardinality(FirstOfTriple) = 3
    /\ Len(result.failure_cases.rows) = 2
    /\ result.failure_cases.rows[1].column = "a"
    /\ result.failure_cases.rows[2].column = "b"

\* C9 as stated: an output that is no boolean scalar, no per-row boolean
\* column for a column or table object and no per-cell boolean table for a
\* table object makes postprocess raise the TypeError that names its type.
C9_NonBooleanIsTypeError ==
    (/\ Posted
     /\ ~ScalarOutput
     /\ ~PerRowOutput
     /\ ~PerCellOutput) =>
        /\ Raised("TypeError")
        /\ result.arg.output_type = call.check_output.type

\* C9 amended: an output that is no bool scalar, no column (of any element
\* type) for a column or table object and no table for a table object makes
\* postprocess raise the TypeError that names its type, and no result.
C9_UnrecognizedTypeIsTypeError ==
    (/\ Posted
     /\ ~ScalarOutput
     /\ call.check_output.type # "Series"
     /\ ~PerCellOutput) =>
        /\ Raised("TypeError")
        /\ result.arg.output_type = call.check_output.type

C9_Witness ==
    /\ Posted /\ ColumnObject
    /\ call.check_output.type = "DataFrame"
    /\ Raised("TypeError")
    /\ result.arg.output_type = "DataFrame"

\* C10: for a table and a table-shaped output with another number of rows
\* or of columns, postprocess raises and returns no Check Result.
C10_ShapeMismatchRaises ==
    (Posted /\ PerCellOutput /\ ~SameShape) =>
        /\ ~Returned
        /\ Raised("AssertionError")

C10_Witness ==
    /\ Posted /\ PerCellOutput
    /\ NumRows = 2
    /\ Len(call.check_output.index) = 2
    /\ Len(call.check_output.columns) = 1
    /\ Raised("AssertionError")

\* The group keys of the grouping of a table: the values of the named
\* column that are not missing, or the parities of the row labels.
Preprocessed == call.op = "preprocess"
Grouped == check.groupby # None
KeyOf(i) ==
    IF check.groupby = Some("by_parity")
    THEN (IF call.check_obj.index[i] % 2 = 0 THEN "even" ELSE "odd")
    ELSE call.check_obj.data[1][i]
GroupKeys == {KeyOf(i) : i \in 1..NumRows} \ {NaN}
Requested == check.groups[1]
Absent(i) == Requested[i] \notin GroupKeys
AbsentCount == Cardinality({i \in 1..Len(Requested) : Absent(i)})
\* The check object the grouping is made on: the named column, or the table.
Projected ==
    IF call.key = None THEN call.check_obj
    ELSE LET j == IF call.key = Some("a") THEN 1 ELSE 2 IN
         [type |-> "Series", index |-> call.check_obj.index,
          values |-> call.check_obj.data[j], dtype |-> call.check_obj.dtype]
\* Rows of group g, read off the group itself.
GroupRowValue(g, p) ==
    IF g.type = "Series" THEN g.values[p]
    ELSE [j \in 1..Len(g.columns) |-> g.data[j][p]]
ProjectedRowValue(i) ==
    IF call.key = None THEN RowValue(i)
    ELSE Projected.values[i]
RowsOfKey(k) == {i \in 1..NumRows : KeyOf(i) = k}
IsGroupOf(g, k) ==
    /\ g.type = Projected.type
    /\ Len(g.index) = Cardinality(RowsOfKey(k))
    /\ \A p \in 1..Len(g.index) :
           /\ g.index[p] = RowLabel(Nth(RowsOfKey(k), p))
           /\ GroupRowValue(g, p) = ProjectedRowValue(Nth(RowsOfKey(k), p))

\* C4: with groupby set and an allow-list that names a key no group has,
\* the call on a table ends in the KeyError that lists exactly the absent
\* keys as invalid and all computed group keys as valid.
C4_InvalidGroupIsKeyError ==
    (/\ Preprocessed /\ TableObject /\ Grouped
     /\ check.groups # None
     /\ AbsentCount > 0) =>
        /\ Raised("KeyError")
        /\ result.arg =
               [invalid |-> [p \in 1..AbsentCount |->
                                Requested[Nth({i \in 1..Len(Requested) : Absent(i)}, p)]],
                valid |-> GroupKeys]

\* C5: with groupby set, preprocess of a table returns the mapping from
\* group key to sub-column (key given) or sub-table (no key): every computed
\* key without an allow-list, the allow-list keys with a valid one, every row
\* in the group of its key.  Without groupby it returns the projected column
\* or the table itself.
C5_GroupedView ==
    (Preprocessed /\ TableObject) =>
        IF ~Grouped THEN result = Projected
        ELSE (check.groups = None \/ AbsentCount = 0) =>
                 /\ result.type = "dict"
                 /\ DOMAIN result.items =
                        (IF check.groups = None THEN GroupKeys
                         ELSE Range(Requested))
                 /\ \A k \in DOMAIN result.items : IsGroupOf(result.items[k], k)

\* The part of C5 without grouping.
C5_Ungrouped ==
    (Preprocessed /\ ~Grouped) =>
        result = (IF TableObject THEN Projected ELSE call.check_obj)

\* C8: the first call and any later call of the backend with the same check
\* object and key return the same thing, whatever was called in between;
\* the backend stays bound to the check it was built with, and the caller's
\* check object is after the call what it was before.
Called == call.op = "call"
SameInputs ==
    /\ earlier # NoCall
    /\ Called
    /\ call.check_obj = earlier.check_obj
    /\ call.key = earlier.key

====
